---------------------------- MODULE Spec2Model ----------------------------
(***************************************************************************)
(* Model of the request-admission layer of the RAG backend (src/main.py):  *)
(* the TTLCache class, the RateLimiter class and the HTTP handlers         *)
(* read_root, get_stats and process_query.                                 *)
(*                                                                         *)
(* Time.  time.time() returns a float; the model counts time in ticks of   *)
(* 1/TicksPerSecond second, so that sub-second readings (and the           *)
(* truncation int(wait_time)) are represented.  The variable clock is the  *)
(* value the next time.time() call returns; it never decreases.            *)
(***************************************************************************)
EXTENDS Integers, Sequences, FiniteSets, Bags, TLC

VARIABLES
    clock,          \* the reading of time.time(), in ticks
    user_requests,  \* RateLimiter.user_requests: client -> list of timestamps
    lim_ret,        \* the last is_allowed call: client, time, return value
    admitted,       \* history: per client, the admitted calls of the trailing window
    burst,          \* history: per client, the run of calls since its history was empty
    cache,          \* TTLCache.cache: the OrderedDict, oldest entry first
    hits,           \* TTLCache.hits
    misses,         \* TTLCache.misses
    cache_ret,      \* the last TTLCache call: operation, key, return value, eviction
    touched,        \* history: the stored keys, least recently touched first
    probe,          \* history: the key of a get followed only by inserts of new keys
    response_cache, \* the module-level name response_cache: a dict, key -> response
    inflight,       \* the bag of the POST /query suspended in "await Runner.run"
    resp,           \* the response the service returned last, and the path that led to it
    served,         \* history: cache key -> the first answer the downstream call gave
    pure            \* a pure function taken alone: its argument and its results

----------------------------------------------------------------------------
(* Helpers *)

None == "None"

Min(a, b) == IF a <= b THEN a ELSE b

Max(a, b) == IF a >= b THEN a ELSE b

SeqMin(s) == CHOOSE m \in {s[i] : i \in DOMAIN s} : \A i \in DOMAIN s : m <= s[i]

\* d[k] = v on a dict d (a function on the set of its keys)
DictPut(d, k, v) == [x \in DOMAIN d \cup {k} |-> IF x = k THEN v ELSE d[x]]

----------------------------------------------------------------------------
(* Bounds of the model *)

\* ticks per second: the resolution of the modelled clock
TicksPerSecond == 2

\* number of 60-second windows the clock runs through
MaxWindows == 1

\* RateLimiter(requests_per_minute=...): the limit the limiter is built with
requests_per_minute == 2

\* TTLCache(max_size=...): the capacity the cache is built with
max_size == 2

\* number of TTLCache.get calls between two clears
MaxGets == 2

\* number of POST /query requests suspended in the downstream call at once
MaxInFlight == 2

\* the longest query text normalize_query is applied to on its own
MaxTextLen == 4

\* the number of times normalize_query is applied to its own result
MaxApplications == 2

(* Program constants *)

\* "if len(user_query) > 1000"
MaxQueryLength == 1000

\* "if len(normalized) > 200"
KeyHashThreshold == 200

\* error_message[:200]
DetailsLength == 200

\* TTLCache(ttl=3600): the time to live, in seconds
ttl == 3600

\* the length of the rate window, in seconds
WindowSeconds == 60

Window == WindowSeconds * TicksPerSecond

MaxTime == MaxWindows * Window + 1

\* The clock readings of the model: every instant within one tick of a
\* multiple of the window.  Differences of two readings fall on both sides
\* of, and exactly on, every multiple of the window.
Instants ==
    { t \in 0..MaxTime : (t % Window <= 1) \/ (t % Window >= Window - 1) }

Clients == {"10.0.0.1", "10.0.0.2"}

\* request.client.host of the requests the service receives
Callers == {"10.0.0.1"}

TtlTicks == ttl * TicksPerSecond

\* int(x) of a non-negative duration held in ticks: whole seconds, truncated
IntSeconds(ticks) == ticks \div TicksPerSecond

\* The clock readings of the cache taken alone: the start, exactly the
\* time to live later, and one tick past that.
CacheInstants == {0, TtlTicks, TtlTicks + 1}

KeyPool == <<"k1", "k2", "k3", "k4", "k5", "k6">>

\* one key more than the cache holds
CacheKeys == { KeyPool[i] : i \in 1..Min(max_size + 1, Len(KeyPool)) }

ValuePool == <<"r1", "r2", "r3", "r4", "r5", "r6">>

Values == { ValuePool[i] : i \in 1..Min(max_size + 1, Len(KeyPool)) }

\* the value stored under a key: the answer to that query
AnswerOf(key) == ValuePool[CHOOSE i \in DOMAIN KeyPool : KeyPool[i] = key]


----------------------------------------------------------------------------
(* RateLimiter *)

\* the list comprehension of is_allowed: keeps req_time when
\* current_time - req_time < 60
PruneMutantNotStored(h, now) == h

Prune(h, now) == SelectSeq(h, LAMBDA t : now - t < Window)

\* the history of client_ip after the initialisation and the pruning
Pruned(ur, client_ip, now) ==
    IF client_ip \in DOMAIN ur THEN Prune(ur[client_ip], now) ELSE <<>>

\* the check "len(history) >= requests_per_minute: return False"
UnderLimitMutantOffByOne(h) == Len(h) <= requests_per_minute

UnderLimit(h) == Len(h) < requests_per_minute

IsAllowedRetMutantOpen(ur, client_ip, now) == TRUE

\* the value is_allowed returns
IsAllowedRet(ur, client_ip, now) == UnderLimit(Pruned(ur, client_ip, now))

IsAllowedStateMutantPrepends(ur, client_ip, now) ==
    LET h == Pruned(ur, client_ip, now)
    IN  DictPut(ur, client_ip, IF Len(h) < requests_per_minute THEN <<now>> \o h ELSE h)

IsAllowedStateMutantAppendsAlways(ur, client_ip, now) ==
    DictPut(ur, client_ip, Append(Pruned(ur, client_ip, now), now))

\* user_requests after is_allowed
IsAllowedState(ur, client_ip, now) ==
    LET h == Pruned(ur, client_ip, now)
    IN  DictPut(ur, client_ip, IF UnderLimit(h) THEN Append(h, now) ELSE h)

\* get_wait_time, in ticks
GetWaitTime(ur, client_ip, now) ==
    IF client_ip \notin DOMAIN ur \/ ur[client_ip] = <<>>
    THEN 0
    ELSE Max(0, Window - (now - SeqMin(ur[client_ip])))

----------------------------------------------------------------------------
(* History variables of the limiter: they record what was observed and    *)
(* never influence the program.                                            *)

\* the admitted calls of a client that lie less than a window before now,
\* kept independently of user_requests
AdmittedAfter(adm, client_ip, now, ret) ==
    LET kept == SelectSeq(adm[client_ip], LAMBDA t : now - t < Window)
    IN  [adm EXCEPT ![client_ip] = IF ret THEN Append(kept, now) ELSE kept]

NoBurst == [first |-> -1, n |-> 0, quick |-> TRUE, denied |-> FALSE]

\* whether every timestamp stored for the client is a window old or older
\* (or none is stored): the client's history is empty once read
Stale(ur, client_ip, now) ==
    \/ client_ip \notin DOMAIN ur
    \/ \A i \in DOMAIN ur[client_ip] : now - ur[client_ip][i] >= Window

\* the run of calls the client is in when it calls at now: a new run when
\* its history is empty
RunAt(b, ur, client_ip, now) ==
    IF Stale(ur, client_ip, now)
    THEN [first |-> now, n |-> 0, quick |-> TRUE, denied |-> FALSE]
    ELSE b[client_ip]

\* the run after the call: the number of calls that returned true, whether
\* all of them came within one second of the first, and whether a call was
\* denied
BurstAfter(b, ur, client_ip, now, ret) ==
    LET cur == RunAt(b, ur, client_ip, now)
    IN  [b EXCEPT ![client_ip] =
            IF ret
            THEN [cur EXCEPT !.n = Min(cur.n + 1, requests_per_minute + 1),
                             !.quick = cur.quick /\ now - cur.first <= TicksPerSecond]
            ELSE [cur EXCEPT !.denied = TRUE]]

----------------------------------------------------------------------------
(* TTLCache.  self.cache is an OrderedDict: a sequence of entries with     *)
(* distinct keys, in insertion order, that move_to_end and popitem         *)
(* reorder and shorten.                                                    *)

Keys(od) == { od[i].key : i \in DOMAIN od }

Entry(od, key) == od[CHOOSE i \in DOMAIN od : od[i].key = key]

\* del od[key]
ODDel(od, key) == SelectSeq(od, LAMBDA e : e.key # key)

\* od.move_to_end(key)
ODMoveToEndMutantNoMove(od, key) == od

ODMoveToEnd(od, key) == Append(ODDel(od, key), Entry(od, key))

\* od[key] = (value, timestamp): in place when the key is present, at the
\* end otherwise
ODSetItem(od, key, value, timestamp) ==
    LET e == [key |-> key, value |-> value, ts |-> timestamp]
    IN  IF key \in Keys(od)
        THEN [i \in DOMAIN od |-> IF od[i].key = key THEN e ELSE od[i]]
        ELSE Append(od, e)

\* od.popitem(last=False)
ODPopFirstMutantLast(od) == SubSeq(od, 1, Len(od) - 1)

ODPopFirst(od) == Tail(od)

\* "time.time() - timestamp > self.ttl"
ExpiredMutantInclusive(timestamp, now) == now - timestamp >= TtlTicks

Expired(timestamp, now) == now - timestamp > TtlTicks

\* "len(self.cache) > self.max_size"
OverSizeMutantOffByOne(od) == Len(od) > max_size + 1

OverSize(od) == Len(od) > max_size

\* TTLCache.get: the OrderedDict afterwards, the value returned, and
\* whether the call counted as a hit
CacheGet(od, key, now) ==
    IF key \notin Keys(od)
    THEN [cache |-> od, ret |-> None, hit |-> FALSE]
    ELSE LET e == Entry(od, key)
         IN  IF Expired(e.ts, now)
             THEN [cache |-> ODDel(od, key), ret |-> None, hit |-> FALSE]
             ELSE [cache |-> ODMoveToEnd(od, key), ret |-> e.value, hit |-> TRUE]

\* the OrderedDict of TTLCache.set before the eviction check
CacheInsert(od, key, value, now) ==
    ODSetItem(IF key \in Keys(od) THEN ODDel(od, key) ELSE od, key, value, now)

\* TTLCache.set
CacheSet(od, key, value, now) ==
    LET a == CacheInsert(od, key, value, now)
    IN  IF OverSize(a) THEN ODPopFirst(a) ELSE a

\* TTLCache.stats; hit_rate is the percentage in hundredths, as "%.2f" prints it
CacheStats(od, h, m) ==
    [size |-> Len(od), max_size |-> max_size, hits |-> h, misses |-> m,
     hit_rate |-> IF h + m > 0 THEN (2 * 10000 * h + (h + m)) \div (2 * (h + m)) ELSE 0,
     ttl |-> ttl]

----------------------------------------------------------------------------
(* History variables of the cache *)

\* the stored keys by last touch: a set of the key or a get of it that hits
\* touches it; keys no longer stored are dropped
TouchedAfter(t, key, touch, stored) ==
    LET moved == IF touch
                 THEN Append(SelectSeq(t, LAMBDA k : k # key), key)
                 ELSE t
    IN  SelectSeq(moved, LAMBDA k : k \in stored)

\* a get under observation: its key, whether it hit, whether the key was
\* then the only one stored, and whether it was the least recently used
NoProbe == [key |-> None, hit |-> FALSE, alone |-> FALSE, head |-> FALSE]

\* cache_ret before any call.  age is the age of the entry a get found
\* (-1: none) and mru whether it was the most recently used one.
NoCacheCall ==
    [op |-> None, key |-> None, ret |-> None, age |-> -1, mru |-> FALSE,
     evicted |-> None, evicted_ts |-> -1, probe |-> NoProbe]

----------------------------------------------------------------------------
(* Actions of the limiter taken alone *)

limVars == <<user_requests, lim_ret, admitted, burst>>

cacheVars == <<cache, hits, misses, cache_ret, touched, probe>>

svcVars == <<response_cache, inflight, resp, served>>

\* lim_ret before any call
NoCall ==
    [client |-> None, now |-> 0, ret |-> FALSE, prev |-> NoBurst, run |-> NoBurst]

\* time passes: a later time.time() reading
Tick ==
    /\ \E t \in Instants : t > clock /\ clock' = t
    /\ UNCHANGED <<limVars, cacheVars, svcVars, pure>>

\* rate_limiter.is_allowed(client_ip)
is_allowed(client_ip) ==
    LET ret == IsAllowedRet(user_requests, client_ip, clock)
    IN  /\ user_requests' = IsAllowedState(user_requests, client_ip, clock)
        /\ lim_ret' = [client |-> client_ip, now |-> clock, ret |-> ret,
                       prev |-> burst[client_ip],
                       run |-> RunAt(burst, user_requests, client_ip, clock)]
        /\ admitted' = AdmittedAfter(admitted, client_ip, clock, ret)
        /\ burst' = BurstAfter(burst, user_requests, client_ip, clock, ret)
        /\ UNCHANGED <<clock, cacheVars, svcVars, pure>>

----------------------------------------------------------------------------
(* Actions of the cache taken alone *)

\* time passes between two calls of the cache
CacheTick ==
    /\ \E t \in CacheInstants : t > clock /\ clock' = t
    /\ UNCHANGED <<limVars, cacheVars, svcVars, pure>>

\* cache.get(key)
TTLCache_get(key) ==
    LET r == CacheGet(cache, key, clock)
    IN  /\ hits + misses < MaxGets
        /\ cache' = r.cache
        /\ hits' = IF r.hit THEN hits + 1 ELSE hits
        /\ misses' = IF r.hit THEN misses ELSE misses + 1
        /\ cache_ret' =
              [NoCacheCall EXCEPT
                  !.op = "get", !.key = key, !.ret = r.ret,
                  !.age = IF key \in Keys(cache)
                          THEN clock - Entry(cache, key).ts ELSE -1,
                  !.mru = key \in Keys(cache) /\ cache[Len(cache)].key = key]
        /\ touched' = TouchedAfter(touched, key, r.hit, Keys(r.cache))
        /\ probe' = [key |-> key, hit |-> r.hit,
                     alone |-> r.hit /\ Len(cache) = 1,
                     head |-> r.hit /\ cache[1].key = key]
        /\ UNCHANGED <<clock, limVars, svcVars, pure>>

\* cache.set(key, value)
TTLCache_set(key, value) ==
    LET after == CacheSet(cache, key, value, clock)
        gone  == Keys(cache) \ Keys(after)
        isNew == key \notin Keys(cache) /\ key # probe.key
    IN  /\ cache' = after
        /\ cache_ret' =
              [NoCacheCall EXCEPT
                  !.op = "set", !.key = key,
                  !.evicted = IF gone = {} THEN None ELSE CHOOSE k \in gone : TRUE,
                  !.evicted_ts = IF gone = {} THEN -1
                                 ELSE Entry(cache, CHOOSE k \in gone : TRUE).ts,
                  !.probe = IF isNew THEN probe ELSE NoProbe]
        /\ touched' = TouchedAfter(touched, key, TRUE, Keys(after))
        /\ probe' = IF isNew /\ gone = {} THEN probe ELSE NoProbe
        /\ UNCHANGED <<clock, hits, misses, limVars, svcVars, pure>>

\* cache.clear()
TTLCache_clear ==
    /\ cache' = <<>>
    /\ hits' = 0
    /\ misses' = 0
    /\ cache_ret' = [NoCacheCall EXCEPT !.op = "clear"]
    /\ touched' = <<>>
    /\ probe' = NoProbe
    /\ UNCHANGED <<clock, limVars, svcVars, pure>>

----------------------------------------------------------------------------
(* Query text.  A text is a sequence of one-character strings.             *)

\* the characters str.strip() and str.split() take for whitespace (ASCII)
Whitespace == {" ", "\t", "\n"}

TrailingPunctuation == {"!", "?", ".", ",", ":", ";"}

SetMax(S) == CHOOSE m \in S : \A x \in S : x <= m

SetMin(S) == CHOOSE m \in S : \A x \in S : m <= x

UpperCase == "ABCDEFGHIJKLMNOPQRSTUVWXYZ"

LowerCase == "abcdefghijklmnopqrstuvwxyz"

\* str.lower() of one character (ASCII)
LowerChar(c) ==
    IF \E i \in 1..Len(UpperCase) : SubSeq(UpperCase, i, i) = c
    THEN LET i == CHOOSE j \in 1..Len(UpperCase) : SubSeq(UpperCase, j, j) = c
         IN  SubSeq(LowerCase, i, i)
    ELSE c

\* str.lower()
Lower(s) == [i \in DOMAIN s |-> LowerChar(s[i])]

\* str.strip()
Strip(s) ==
    LET solid == { i \in DOMAIN s : s[i] \notin Whitespace }
    IN  IF solid = {} THEN <<>> ELSE SubSeq(s, SetMin(solid), SetMax(solid))

\* ' '.join(s.split()): the words of s, one space between two of them
SplitJoin(s) ==
    LET solid == { i \in DOMAIN s : s[i] \notin Whitespace }
        keep(i) == \/ i \in solid
                   \/ /\ i - 1 \in solid
                      /\ \E j \in solid : j > i
        idx == SelectSeq([i \in 1..Len(s) |-> i], keep)
    IN  [j \in 1..Len(idx) |-> IF idx[j] \in solid THEN s[idx[j]] ELSE " "]

\* the loop "while normalized and normalized[-1] in '!?.,:;'"
StripTrailingPunctuation(s) ==
    LET kept == { i \in DOMAIN s : s[i] \notin TrailingPunctuation }
    IN  IF kept = {} THEN <<>> ELSE SubSeq(s, 1, SetMax(kept))

normalize_query(query) == StripTrailingPunctuation(SplitJoin(Strip(Lower(query))))

\* hashlib.md5(...).hexdigest(), taken to be free of collisions: the digest
\* of a text is the text under a mark no plain key carries
Md5(s) == <<"md5:">> \o s

get_cache_key(query) ==
    LET normalized == normalize_query(query)
    IN  IF Len(normalized) > KeyHashThreshold THEN Md5(normalized) ELSE normalized

----------------------------------------------------------------------------
(* The service: module-level state and the handlers *)

\* the attributes the object bound to response_cache answers to: the name
\* is bound to a TTLCache first and rebound to an empty dict afterwards
DictMethods ==
    {"clear", "copy", "fromkeys", "get", "items", "keys", "pop", "popitem",
     "setdefault", "update", "values"}

ResponseCacheMethods == DictMethods

\* str(e) of the AttributeError a missing attribute raises
AttributeErrorMessage(name) ==
    "'dict' object has no attribute '" \o name \o "'"

\* a JSON body of POST /query: query.get("text") is None when text is missing
Body(has_text, text) == [has_text |-> has_text, text |-> text]

ValidBodies ==
    { Body(TRUE, <<"H", "i">>),
      Body(TRUE, <<" ", "h", "i", "?">>),
      Body(TRUE, <<"b">>) }

InvalidBodies ==
    { Body(FALSE, <<>>), Body(TRUE, <<>>), Body(TRUE, <<" ">>), Body(TRUE, <<"\t", " ">>),
      Body(TRUE, [i \in 1..(MaxQueryLength + 1) |-> "a"]) }

Bodies == ValidBodies \cup InvalidBodies

\* result.final_output of a downstream call that succeeds
Answers == {"a1", "a2"}

\* str(e) of a downstream call that raises
Failures ==
    { "Error code: 429",
      "401 Unauthorized",
      "Connection refused",
      "boom" }

\* error_message.lower(): a message is a string
RECURSIVE LowerStr(_)
LowerStr(message) ==
    IF Len(message) <= 1 THEN LowerChar(message)
    ELSE LET half == Len(message) \div 2
         IN  LowerStr(SubSeq(message, 1, half))
                 \o LowerStr(SubSeq(message, half + 1, Len(message)))

\* "w in error_message"
Has(message, w) ==
    \E i \in 1..(Len(message) - Len(w) + 1) : SubSeq(message, i, i + Len(w) - 1) = w

\* "w in error_message.lower()"
HasLower(message, w) == Has(LowerStr(message), w)

\* error_message[:200]
Excerpt(message) == SubSeq(message, 1, Min(DetailsLength, Len(message)))

ClassifyMutantAuthFirst(message) ==
    IF \/ Has(message, "401")
       \/ HasLower(message, "unauthorized")
       \/ HasLower(message, "authentication")
    THEN [status |-> 500, error |-> "authentication", details |-> ""]
    ELSE IF Has(message, "429") \/ HasLower(message, "quota") \/ HasLower(message, "rate limit")
    THEN [status |-> 429, error |-> "quota_exceeded", details |-> ""]
    ELSE IF HasLower(message, "connection") \/ HasLower(message, "timeout")
    THEN [status |-> 503, error |-> "unavailable", details |-> ""]
    ELSE [status |-> 500, error |-> "generic", details |-> Excerpt(message)]

\* the except branch of process_query: status code and error of the response
Classify(message) ==
    IF Has(message, "429") \/ HasLower(message, "quota") \/ HasLower(message, "rate limit")
    THEN [status |-> 429, error |-> "quota_exceeded", details |-> ""]
    ELSE IF \/ Has(message, "401")
            \/ HasLower(message, "unauthorized")
            \/ HasLower(message, "authentication")
    THEN [status |-> 500, error |-> "authentication", details |-> ""]
    ELSE IF HasLower(message, "connection") \/ HasLower(message, "timeout")
    THEN [status |-> 503, error |-> "unavailable", details |-> ""]
    ELSE [status |-> 500, error |-> "generic", details |-> Excerpt(message)]

\* "not user_query or not user_query.strip()"
NoText(body) == ~body.has_text \/ body.text = <<>> \/ Strip(body.text) = <<>>

TooLongMutantOffByOne(body) == Len(body.text) > MaxQueryLength + 1

TooLong(body) == Len(body.text) > MaxQueryLength

\* what process_query computes from the body alone, tabulated over the
\* bodies: the two validation tests and get_cache_key(user_query)
Checked ==
    [b \in Bodies |-> [no_text   |-> NoText(b),
                       too_long  |-> TooLong(b),
                       cache_key |-> get_cache_key(b.text)]]

\* a request suspended in "await Runner.run": its cache key, whether an
\* earlier request had already obtained an answer for that key when it
\* arrived, and whether another request for the key has been suspended at
\* the same time as this one
Suspend(key, repeat, overlapped) ==
    [key |-> key, repeat |-> repeat, overlapped |-> overlapped]

\* every request that can be suspended
Suspended ==
    { Suspend(Checked[b].cache_key, repeat, overlapped) :
        b \in Bodies, repeat \in BOOLEAN, overlapped \in BOOLEAN }

\* the suspended requests once one more request for key is suspended
Overlap(bag, key) ==
    LET mark(r) == IF r.key = key THEN [r EXCEPT !.overlapped = TRUE] ELSE r
        marked  == { mark(r) : r \in BagToSet(bag) }
        count(m) == LET from == { r \in BagToSet(bag) : mark(r) = m }
                    IN  IF from = {} THEN 0
                        ELSE LET a == CHOOSE r \in from : TRUE
                                 rest == from \ {a}
                             IN  bag[a] + (IF rest = {} THEN 0
                                           ELSE bag[CHOOSE r \in rest : TRUE])
    IN  [m \in marked |-> count(m)]

\* whether a request for key is suspended
InFlight(bag, key) == \E r \in BagToSet(bag) : r.key = key

\* resp before any request.  The fields from key on record the path of the
\* request: its cache key, whether it passed validation, the limiter and
\* the cache lookup, how the downstream call ended and with which answer,
\* and whether an earlier request had obtained an answer for the key when
\* this one arrived.
NoResp ==
    [route |-> None, status |-> 0, error |-> None, response |-> None,
     cached |-> FALSE, retry_after |-> -1, details |-> "",
     key |-> <<>>, valid |-> FALSE, admitted |-> FALSE,
     hit |-> FALSE, outcome |-> None, answer |-> None, repeat |-> FALSE,
     overlapped |-> FALSE]

\* the response leaves the service: resp holds one response at a time, and
\* the next handler step runs once it is sent
respond ==
    /\ resp # NoResp
    /\ resp' = NoResp
    /\ UNCHANGED <<clock, limVars, cacheVars, response_cache, inflight, served, pure>>

\* time passes between two handler steps of the service
ServiceTick ==
    /\ resp = NoResp
    /\ \E t \in Instants : t > clock /\ clock' = t
    /\ UNCHANGED <<limVars, cacheVars, svcVars, pure>>

\* GET /
read_root ==
    /\ resp = NoResp
    /\ resp' = [NoResp EXCEPT !.route = "root", !.status = 200]
    /\ UNCHANGED <<clock, limVars, cacheVars, response_cache, inflight, served, pure>>

\* GET /stats: response_cache.stats() raises AttributeError when the object
\* has no such attribute, and the framework answers 500
get_stats ==
    /\ resp = NoResp
    /\ resp' = IF "stats" \in ResponseCacheMethods
               THEN [NoResp EXCEPT !.route = "stats", !.status = 200]
               ELSE [NoResp EXCEPT !.route = "stats", !.status = 500,
                                   !.error = "internal_server_error"]
    /\ UNCHANGED <<clock, limVars, cacheVars, response_cache, inflight, served, pure>>

\* POST /query up to its return or to "await Runner.run"
process_query(body, client_ip) ==
    LET path    == [NoResp EXCEPT !.route = "query"]
        checked == Checked[body]
    IN
    /\ resp = NoResp
    /\ IF checked.no_text
       THEN /\ resp' = [path EXCEPT !.status = 400, !.error = "no_query_text"]
            /\ UNCHANGED <<user_requests, response_cache, inflight>>
       ELSE IF checked.too_long
       THEN /\ resp' = [path EXCEPT !.status = 400, !.error = "query_too_long"]
            /\ UNCHANGED <<user_requests, response_cache, inflight>>
       ELSE
         LET allowed == IsAllowedRet(user_requests, client_ip, clock)
             after   == IsAllowedState(user_requests, client_ip, clock)
             key     == checked.cache_key
             repeat  == key \in DOMAIN served
             seen    == [path EXCEPT !.valid = TRUE, !.key = key, !.repeat = repeat]
         IN  /\ user_requests' = after
             /\ IF ~allowed
                THEN /\ resp' = [seen EXCEPT
                                    !.status = 429, !.error = "rate_limited",
                                    !.retry_after =
                                        IntSeconds(GetWaitTime(after, client_ip, clock))]
                     /\ UNCHANGED <<response_cache, inflight>>
                ELSE IF key \in DOMAIN response_cache
                THEN /\ response_cache' = [response_cache EXCEPT ![key].cached = TRUE]
                     /\ resp' = [seen EXCEPT
                                    !.status = 200, !.admitted = TRUE, !.hit = TRUE,
                                    !.response = response_cache[key].response,
                                    !.cached = TRUE]
                     /\ UNCHANGED inflight
                ELSE /\ BagCardinality(inflight) < MaxInFlight
                     /\ inflight' = Overlap(inflight, key)
                                        (+) SetToBag({Suspend(key, repeat,
                                                              InFlight(inflight, key))})
                     /\ UNCHANGED <<response_cache, resp>>
    /\ UNCHANGED <<clock, lim_ret, admitted, burst, cacheVars, served, pure>>

\* the exceptions the try block of process_query can raise, by str(e)
Raised == Failures \cup { AttributeErrorMessage(name) : name \in {"set"} \ ResponseCacheMethods }

\* the except branch, tabulated over the exceptions
Classified == [message \in Raised |-> Classify(message)]

\* the except branch: the error response for str(e) = message
Failed(path, message) ==
    LET c == Classified[message]
    IN  [path EXCEPT !.status = c.status, !.error = c.error, !.details = c.details]

\* POST /query from the return of Runner.run with final_output = answer
query_returns(r, answer) ==
    LET path == [NoResp EXCEPT !.route = "query", !.key = r.key, !.valid = TRUE,
                               !.admitted = TRUE, !.outcome = "ok",
                               !.answer = answer, !.repeat = r.repeat, !.overlapped = r.overlapped]
        response == [response |-> answer, cached |-> FALSE]
    IN  /\ resp = NoResp
        /\ BagIn(r, inflight)
        /\ inflight' = inflight (-) SetToBag({r})
        /\ served' = IF r.key \in DOMAIN served
                     THEN served
                     ELSE DictPut(served, r.key, answer)
        /\ IF "set" \in ResponseCacheMethods
           THEN /\ response_cache' = DictPut(response_cache, r.key, response)
                /\ resp' = [path EXCEPT !.status = 200, !.response = answer,
                                        !.cached = FALSE]
           ELSE /\ resp' = Failed(path, AttributeErrorMessage("set"))
                /\ UNCHANGED response_cache
        /\ UNCHANGED <<clock, limVars, cacheVars, pure>>

query_raisesMutantRefunds(r, message) ==
    LET path == [NoResp EXCEPT !.route = "query", !.key = r.key, !.valid = TRUE,
                               !.admitted = TRUE, !.outcome = "raised",
                               !.repeat = r.repeat, !.overlapped = r.overlapped]
    IN  /\ resp = NoResp
        /\ BagIn(r, inflight)
        /\ inflight' = inflight (-) SetToBag({r})
        /\ resp' = Failed(path, message)
        /\ user_requests' =
               [c \in DOMAIN user_requests |->
                   SubSeq(user_requests[c], 1, Len(user_requests[c]) - 1)]
        /\ UNCHANGED <<clock, lim_ret, admitted, burst, cacheVars, response_cache,
                       served, pure>>

query_raisesMutantCachesError(r, message) ==
    LET path == [NoResp EXCEPT !.route = "query", !.key = r.key, !.valid = TRUE,
                               !.admitted = TRUE, !.outcome = "raised",
                               !.repeat = r.repeat, !.overlapped = r.overlapped]
    IN  /\ resp = NoResp
        /\ BagIn(r, inflight)
        /\ inflight' = inflight (-) SetToBag({r})
        /\ resp' = Failed(path, message)
        /\ response_cache' =
               DictPut(response_cache, r.key, [response |-> message, cached |-> FALSE])
        /\ UNCHANGED <<clock, limVars, cacheVars, served, pure>>

\* POST /query from Runner.run raising an exception with str(e) = message
query_raises(r, message) ==
    LET path == [NoResp EXCEPT !.route = "query", !.key = r.key, !.valid = TRUE,
                               !.admitted = TRUE, !.outcome = "raised",
                               !.repeat = r.repeat, !.overlapped = r.overlapped]
    IN  /\ resp = NoResp
        /\ BagIn(r, inflight)
        /\ inflight' = inflight (-) SetToBag({r})
        /\ resp' = Failed(path, message)
        /\ UNCHANGED <<clock, limVars, cacheVars, response_cache, served, pure>>

----------------------------------------------------------------------------
(* The pure functions taken alone *)

\* the characters of the query texts normalize_query is applied to
TextChars == {"H", "i", " ", "?"}

RECURSIVE TextsOfLen(_)
TextsOfLen(n) ==
    IF n = 0 THEN { <<>> }
    ELSE { Append(t, c) : t \in TextsOfLen(n - 1), c \in TextChars }

Texts == UNION { TextsOfLen(n) : n \in 0..MaxTextLen }

RECURSIVE Repeat(_, _)
Repeat(c, n) ==
    IF n = 0 THEN ""
    ELSE IF n % 2 = 0 THEN LET half == Repeat(c, n \div 2) IN half \o half
    ELSE c \o Repeat(c, n - 1)

\* str(e) of the exceptions the except branch is applied to
Messages ==
    { "", "boom", "Error code: 429", "HTTP 4290", "Quota exceeded", "Rate Limit reached",
      "rate  limit", "401", "Unauthorized", "Authentication failed",
      "Connection reset", "read Timeout", "429 Unauthorized", "quota: connection lost",
      "401 timeout", "RATE LIMIT 401 CONNECTION", "authentication timeout",
      "'dict' object has no attribute 'set'",
      Repeat("x", DetailsLength), Repeat("x", DetailsLength + 1),
      Repeat("x", DetailsLength + 1) \o " quota",
      Repeat("x", DetailsLength + 1) \o " timeout" }

NoClass == [status |-> 0, error |-> None, details |-> ""]

NoPure ==
    [fn |-> None, text |-> <<>>, message |-> "", normalized |-> <<>>,
     classified |-> NoClass]

\* normalize_query(query), applied to the text and then to its own result
call_normalize_query ==
    /\ pure.fn = "normalize_query"
    /\ Len(pure.normalized) < MaxApplications
    /\ LET query == IF pure.normalized = <<>> THEN pure.text
                    ELSE pure.normalized[Len(pure.normalized)]
       IN  pure' = [pure EXCEPT !.normalized = Append(@, normalize_query(query))]
    /\ UNCHANGED <<clock, limVars, cacheVars, svcVars>>

\* the except branch of process_query, applied to str(e)
call_classify ==
    /\ pure.fn = "classify"
    /\ pure.classified = NoClass
    /\ pure' = [pure EXCEPT !.classified = Classify(pure.message)]
    /\ UNCHANGED <<clock, limVars, cacheVars, svcVars>>

----------------------------------------------------------------------------
(* Specifications *)

vars == <<clock, limVars, cacheVars, svcVars, pure>>

InitRateLimiter ==
    /\ user_requests = << >>
    /\ lim_ret = NoCall
    /\ admitted = [c \in Clients |-> <<>>]
    /\ burst = [c \in Clients |-> NoBurst]

InitTTLCache ==
    /\ cache = <<>>
    /\ hits = 0
    /\ misses = 0
    /\ cache_ret = NoCacheCall
    /\ touched = <<>>
    /\ probe = NoProbe

InitService ==
    /\ response_cache = << >>
    /\ inflight = EmptyBag
    /\ resp = NoResp
    /\ served = << >>

Init ==
    /\ clock = 0
    /\ InitRateLimiter
    /\ InitTTLCache
    /\ InitService
    /\ pure = NoPure

\* a pure function and one argument for it
InitPure ==
    /\ clock = 0
    /\ InitRateLimiter
    /\ InitTTLCache
    /\ InitService
    /\ \/ \E t \in Texts : pure = [NoPure EXCEPT !.fn = "normalize_query", !.text = t]
       \/ \E m \in Messages : pure = [NoPure EXCEPT !.fn = "classify", !.message = m]

Next ==
    \/ ServiceTick
    \/ respond
    \/ read_root
    \/ get_stats
    \/ \E b \in Bodies, c \in Callers : process_query(b, c)
    \/ \E r \in Suspended, a \in Answers : query_returns(r, a)
    \/ \E r \in Suspended, m \in Failures : query_raises(r, m)

\* the service under any sequence and interleaving of requests
Spec == Init /\ [][Next]_vars

NextLimiter ==
    \/ Tick
    \/ \E c \in Clients : is_allowed(c)

\* the RateLimiter under any sequence of calls
SpecLimiter == Init /\ [][NextLimiter]_vars

NextCache ==
    \/ CacheTick
    \/ \E k \in CacheKeys : TTLCache_get(k)
    \/ \E k \in CacheKeys : TTLCache_set(k, AnswerOf(k))
    \/ TTLCache_clear

\* the TTLCache under any sequence of calls
SpecCache == Init /\ [][NextCache]_vars

NextPure ==
    \/ call_normalize_query
    \/ call_classify

\* normalize_query and the classification of failures on any argument
SpecPure == InitPure /\ [][NextPure]_vars

----------------------------------------------------------------------------
(* Claims about the RateLimiter *)

\* C8: for a client whose history is empty and a limiter with limit L, the
\* first L calls made within one second all return true; a further call
\* less than 60 seconds after the first returns false; and the next call,
\* made more than 60 seconds after the first, returns true again.
C8_RateWindow ==
    lim_ret.client # None =>
        LET r == lim_ret.run
            p == lim_ret.prev
        IN  /\ (r.n < requests_per_minute /\ r.quick
                    /\ lim_ret.now - r.first <= TicksPerSecond)
                    => lim_ret.ret
            /\ (p.n = requests_per_minute /\ p.quick
                    /\ lim_ret.now - p.first < Window)
                    => ~lim_ret.ret
            /\ (p.n = requests_per_minute /\ p.quick
                    /\ lim_ret.now - p.first > Window)
                    => lim_ret.ret

\* a client filled its limit within a second, was denied, and is admitted
\* again by a call more than 60 seconds after its first
C8_Witness ==
    /\ lim_ret.client # None
    /\ lim_ret.prev.n = requests_per_minute
    /\ lim_ret.prev.quick
    /\ lim_ret.prev.denied
    /\ lim_ret.now - lim_ret.prev.first > Window
    /\ lim_ret.ret

\* C9: with a non-decreasing clock, the calls admitted for one client
\* within any span shorter than 60 seconds never number more than the
\* limit: at every call, the admitted calls less than 60 seconds old
\* (the call itself included) are at most requests_per_minute.
C9_NoBoundaryDoubling ==
    \A c \in Clients : Len(admitted[c]) <= requests_per_minute

\* a client that was admitted just before an instant and again at or after
\* it is denied once the trailing window holds the limit
C9_Witness ==
    /\ lim_ret.client # None
    /\ ~lim_ret.ret
    /\ LET a == admitted[lim_ret.client]
       IN  /\ Len(a) = requests_per_minute
           /\ a[1] < Window
           /\ a[Len(a)] >= Window

----------------------------------------------------------------------------
(* Claims about the TTLCache *)

\* C4: after every completed get, set or clear, in any order, the cache
\* holds at most max_size entries and its recency order holds every stored
\* key exactly once.
C4_SizeAndOrder ==
    /\ Len(cache) <= max_size
    /\ Cardinality(Keys(cache)) = Len(cache)

\* a set evicted an entry and left the cache full
C4_Witness ==
    /\ cache_ret.op = "set"
    /\ cache_ret.evicted # None
    /\ Len(cache) = max_size

\* C5: a set that inserts an absent key into a full cache removes exactly
\* one entry, the least recently touched one (touched: set, or hit by a
\* get); the other entries and their relative order are unchanged, and the
\* new entry is the most recently used.
C5_EvictsLeastRecentlyTouched ==
    [][ \A k \in CacheKeys, v \in Values :
          (TTLCache_set(k, v) /\ k \notin Keys(cache) /\ Len(cache) = max_size)
          => /\ Keys(cache) \ Keys(cache') = {touched[1]}
             /\ Len(cache') = max_size
             /\ SubSeq(cache', 1, Len(cache') - 1)
                    = SelectSeq(cache, LAMBDA e : e.key # touched[1])
             /\ cache'[Len(cache')] = [key |-> k, value |-> v, ts |-> clock]
      ]_vars

\* a set evicted an entry that was stored later than one it left in place:
\* the entry left in place had been touched since
C5_Witness ==
    /\ cache_ret.op = "set"
    /\ cache_ret.evicted # None
    /\ \E i \in DOMAIN cache : cache[i].ts < cache_ret.evicted_ts

\* C6: a get of a stored key later than its timestamp plus ttl returns
\* absent, adds one to misses and none to hits, and deletes the entry,
\* wherever the entry stands in the recency order; a get no later than that
\* returns the stored value and adds one to hits.
C6_TtlExpiry ==
    [][ \A k \in CacheKeys :
          (TTLCache_get(k) /\ k \in Keys(cache))
          => LET e == Entry(cache, k)
             IN  IF clock > e.ts + TtlTicks
                 THEN /\ cache_ret'.ret = None
                      /\ misses' = misses + 1
                      /\ hits' = hits
                      /\ k \notin Keys(cache')
                 ELSE /\ cache_ret'.ret = e.value
                      /\ hits' = hits + 1
                      /\ misses' = misses
      ]_vars

\* a get found the most recently used entry one tick past its time to live
\* and returned absent
C6_Witness ==
    /\ cache_ret.op = "get"
    /\ cache_ret.age = TtlTicks + 1
    /\ cache_ret.mru
    /\ cache_ret.ret = None
    /\ misses > 0

\* a get found an entry exactly ttl old and returned its value
C6_WitnessFresh ==
    /\ cache_ret.op = "get"
    /\ cache_ret.age = TtlTicks
    /\ cache_ret.ret # None

\* C7 as claimed: for every cache state and every max_size, a get(k)
\* followed at once by inserts of new distinct keys up to the first
\* eviction does not evict k.
C7_Original ==
    (cache_ret.op = "set" /\ cache_ret.evicted # None
        /\ cache_ret.probe.key # None)
    => cache_ret.evicted # cache_ret.probe.key

\* C7 as amended: the same, provided k was not the only key stored when
\* the get hit it.
C7_RecencyUpdate ==
    (cache_ret.op = "set" /\ cache_ret.evicted # None
        /\ cache_ret.probe.key # None /\ ~cache_ret.probe.alone)
    => cache_ret.evicted # cache_ret.probe.key

\* a get hit the least recently used of several keys, and the eviction that
\* followed took another key
C7_Witness ==
    /\ cache_ret.op = "set"
    /\ cache_ret.evicted # None
    /\ cache_ret.probe.key # None
    /\ cache_ret.probe.hit
    /\ cache_ret.probe.head
    /\ ~cache_ret.probe.alone
    /\ cache_ret.probe.key \in Keys(cache)

\* the stored history of the client, empty when it has none
History(client_ip) ==
    IF client_ip \in DOMAIN user_requests THEN user_requests[client_ip] ELSE <<>>

\* C16: an is_allowed(c) call that returns false appends nothing: the
\* history of c becomes the prior history without the timestamps 60 or more
\* seconds old, and no other client's history changes.  And a call made
\* when the oldest retained timestamp of c is at least 60 seconds old
\* returns true, whatever calls were denied before.
C16_DeniedCallAppendsNothing ==
    [][\A c \in Clients :
          is_allowed(c)
          => /\ lim_ret'.ret = FALSE
                => /\ user_requests'[c]
                         = SelectSeq(History(c), LAMBDA t : ~(clock - t >= Window))
                   /\ \A d \in DOMAIN user_requests \ {c} :
                         user_requests'[d] = user_requests[d]
                   /\ DOMAIN user_requests' = DOMAIN user_requests \cup {c}
             /\ (History(c) # <<>> /\ clock - SeqMin(History(c)) >= Window)
                => lim_ret'.ret = TRUE]_vars

\* a call admitted a window after the oldest timestamp, in a run of calls
\* in which one was denied
C16_Witness ==
    /\ lim_ret.client # None
    /\ lim_ret.ret = TRUE
    /\ lim_ret.prev.denied
    /\ lim_ret.prev.n = requests_per_minute
    /\ lim_ret.now - lim_ret.prev.first >= Window
    /\ Len(user_requests[lim_ret.client]) >= 1

\* C19: the history stored for a client holds at most limit timestamps, in
\* non-decreasing order, so that its minimum is its first element.
C19_HistoryBoundedAndSorted ==
    \A c \in DOMAIN user_requests :
        LET h == user_requests[c]
        IN  /\ Len(h) <= requests_per_minute
            /\ \A i, j \in DOMAIN h : i < j => h[i] <= h[j]
            /\ h # <<>> => SeqMin(h) = h[1]

\* a full history with timestamps of different times
C19_Witness ==
    \E c \in DOMAIN user_requests :
        LET h == user_requests[c]
        IN  /\ Len(h) = requests_per_minute
            /\ h[1] < h[Len(h)]
            /\ lim_ret.client = c
            /\ lim_ret.ret = TRUE

----------------------------------------------------------------------------
(* Claims about the service *)

\* C1: a POST /query with a valid text, admitted by the limiter, whose key
\* is not cached and whose downstream call succeeds, stores
\* {response, cached: false} under the key and returns 200 with the
\* downstream answer and cached = false; it returns no error.
C1_StoresAndReturns ==
    (resp.route = "query" /\ resp.valid /\ resp.admitted /\ ~resp.hit
        /\ resp.outcome = "ok")
    => /\ resp.status = 200
       /\ resp.response = resp.answer
       /\ resp.cached = FALSE
       /\ resp.key \in DOMAIN response_cache
       /\ response_cache[resp.key] = [response |-> resp.answer, cached |-> FALSE]

\* C2: a POST /query that arrives, within the TTL and under the rate limit,
\* after an earlier request obtained an answer for the same cache key,
\* returns 200 with cached = true and that answer, without a downstream
\* call of its own.
C2_RepeatIsServedFromCache ==
    (resp.route = "query" /\ resp.valid /\ resp.admitted /\ resp.repeat
        /\ clock <= TtlTicks)
    => /\ resp.status = 200
       /\ resp.cached = TRUE
       /\ resp.hit
       /\ resp.outcome = None
       /\ resp.response = served[resp.key]

\* C3: GET /stats answers 200 with the statistics in every reachable state;
\* it never fails.
C3_StatsSucceeds ==
    resp.route = "stats" => resp.status = 200

\* C10: a POST /query rejected by the rate limiter answers 429 with a
\* retry_after strictly greater than 0.
C10_RetryAfterPositive ==
    resp.error = "rate_limited" => (resp.status = 429 /\ resp.retry_after > 0)

\* a body whose text is missing, empty, whitespace-only or too long
InvalidText(body) ==
    \/ ~body.has_text
    \/ Len(body.text) = 0
    \/ \A i \in DOMAIN body.text : body.text[i] \in Whitespace
    \/ Len(body.text) > MaxQueryLength

\* the bodies of either kind
InvalidTexts == { b \in Bodies : InvalidText(b) }

ValidTexts == Bodies \ InvalidTexts

\* C11: a POST /query whose text is missing, empty, whitespace-only or
\* longer than 1000 characters answers 400, leaves the rate-limiter history
\* and the cache (entries, order, hits, misses) as they were and suspends in
\* no downstream call.
C11_InvalidInputRejected ==
    [][\A b \in InvalidTexts, c \in Callers :
          process_query(b, c)
          => /\ resp'.route = "query"
             /\ resp'.status = 400
             /\ resp'.error \in {"no_query_text", "query_too_long"}
             /\ UNCHANGED <<user_requests, response_cache, inflight,
                            cache, hits, misses>>]_vars

C11_Witness ==
    /\ resp.route = "query"
    /\ resp.status = 400
    /\ resp.error = "query_too_long"
    /\ user_requests # << >>

\* C14: two POST /query for the same uncached key can both miss the cache
\* and both be suspended in the downstream call; once the last of them has
\* returned with an answer, the cache holds an entry for the key (a single
\* one: the cache is keyed) with that answer.
C14_ConcurrentMissesLeaveOneEntry ==
    (/\ resp.route = "query" /\ resp.outcome = "ok" /\ resp.overlapped
     /\ ~InFlight(inflight, resp.key))
    => /\ resp.key \in DOMAIN response_cache
       /\ response_cache[resp.key].response = resp.answer

\* the interleaving itself: two requests for one key, both past the cache
\* lookup and suspended in the downstream call
C14_BothMissed ==
    \E r \in BagToSet(inflight) :
        \/ inflight[r] >= 2
        \/ \E q \in BagToSet(inflight) : q # r /\ q.key = r.key

\* the client has used up its limit: limit or more of its stored timestamps
\* are less than 60 seconds old
Exhausted(client_ip) ==
    /\ client_ip \in DOMAIN user_requests
    /\ Cardinality({ i \in DOMAIN user_requests[client_ip] :
                        clock - user_requests[client_ip][i] < Window })
           >= requests_per_minute

C13_FailureIsCaughtAndNotCached ==
    [][(resp = NoResp /\ resp'.route = "query" /\ resp'.outcome = "raised")
       => /\ resp'.status \in {429, 500, 503}
          /\ resp'.error \in {"quota_exceeded", "authentication", "unavailable", "generic"}
          /\ response_cache' = response_cache
          /\ UNCHANGED <<cache, hits, misses>>]_vars

C13_Witness ==
    /\ resp.route = "query"
    /\ resp.outcome = "raised"
    /\ resp.status = 503
    /\ resp.repeat

\* C18: an entry of the cache is not modified between the set that stores
\* it and its removal: a key that stays in the cache keeps its response and
\* its cached flag (false), whatever request runs, unless a set replaces it.
C18_EntriesImmutable ==
    [][\A k \in DOMAIN response_cache \cap DOMAIN response_cache' :
          \/ response_cache'[k] = response_cache[k]
          \/ resp'.outcome = "ok" /\ resp'.key = k]_vars

\* the case of C18: an entry is stored and a request hits it
C18_EntryHit ==
    /\ resp.route = "query"
    /\ resp.hit
    /\ resp.key \in DOMAIN response_cache

\* no request ever stores an entry: response_cache stays the empty dict
NothingIsCached == response_cache = << >>

\* C20: a POST /query with a valid text from a client under its limit
\* appends exactly one timestamp, the current time, to the history of its
\* client, and no later step of the request takes it back: the return or
\* the failure of the downstream call leaves every history as it was, and
\* no step removes a timestamp less than 60 seconds old.
C20_AdmissionConsumesOneSlot ==
    [][/\ \A c \in Callers :
             ~Exhausted(c)
             => \A b \in ValidTexts :
                   process_query(b, c)
                   => user_requests'[c]
                        = Append(SelectSeq(History(c), LAMBDA t : clock - t < Window),
                                 clock)
       /\ (resp = NoResp /\ resp'.outcome \in {"ok", "raised"})
             => user_requests' = user_requests
       /\ \A c \in DOMAIN user_requests :
             LET kept == SelectSeq(user_requests[c], LAMBDA t : clock - t < Window)
             IN  /\ c \in DOMAIN user_requests'
                 /\ \/ user_requests'[c] = user_requests[c]
                    \/ /\ Len(user_requests'[c]) >= Len(kept)
                       /\ SubSeq(user_requests'[c], 1, Len(kept)) = kept
      ]_vars

\* the downstream call of an admitted request failed, and the timestamp of
\* the request is still in the history of its client
C20_Witness ==
    /\ resp.route = "query"
    /\ resp.outcome = "raised"
    /\ \E c \in DOMAIN user_requests :
          /\ Len(user_requests[c]) = requests_per_minute
          /\ \A i \in DOMAIN user_requests[c] : clock - user_requests[c][i] < Window

----------------------------------------------------------------------------
(* Claims about the pure functions; checked under SpecPure *)

\* C12: normalize_query is idempotent: applied to its own result it
\* returns that result, also when whitespace precedes trailing punctuation
C12_NormalizeIdempotent ==
    \A i \in 2..Len(pure.normalized) : pure.normalized[i] = pure.normalized[1]


\* the indicators of the three classes of failure in a failure text
QuotaIndicator(m) ==
    Has(m, "429") \/ HasLower(m, "quota") \/ HasLower(m, "rate limit")

AuthIndicator(m) ==
    Has(m, "401") \/ HasLower(m, "unauthorized") \/ HasLower(m, "authentication")

ConnectivityIndicator(m) == HasLower(m, "connection") \/ HasLower(m, "timeout")

\* C17: a failure text with a quota indicator is classified 429 with the
\* fixed message, whatever else it holds; otherwise one with an auth
\* indicator 500; otherwise one with a connectivity indicator 503;
\* otherwise 500 with the first 200 characters of the text at most.
C17_ClassificationPriority ==
    (pure.fn = "classify" /\ pure.classified # NoClass)
    => LET m == pure.message
           c == pure.classified
       IN  /\ QuotaIndicator(m)
              => c = [status |-> 429, error |-> "quota_exceeded", details |-> ""]
           /\ (~QuotaIndicator(m) /\ AuthIndicator(m))
              => c = [status |-> 500, error |-> "authentication", details |-> ""]
           /\ (~QuotaIndicator(m) /\ ~AuthIndicator(m) /\ ConnectivityIndicator(m))
              => c = [status |-> 503, error |-> "unavailable", details |-> ""]
           /\ (~QuotaIndicator(m) /\ ~AuthIndicator(m) /\ ~ConnectivityIndicator(m))
              => /\ c.status = 500
                 /\ c.error = "generic"
                 /\ Len(c.details) <= DetailsLength
                 /\ c.details = SubSeq(m, 1, Len(c.details))
                 /\ Len(m) <= DetailsLength => c.details = m

\* a text with the indicators of all three classes, classified 429
C17_Witness ==
    /\ pure.fn = "classify"
    /\ pure.classified.status = 429
    /\ AuthIndicator(pure.message)
    /\ ConnectivityIndicator(pure.message)

\* a text longer than 200 characters without indicators, cut to 200
C17_WitnessExcerpt ==
    /\ pure.fn = "classify"
    /\ pure.classified.error = "generic"
    /\ Len(pure.message) > DetailsLength
    /\ Len(pure.classified.details) = DetailsLength


=============================================================================
